---- MODULE Spec2Model ----
(***************************************************************************)
(* EmberAPI route matching: the JavaScript RadixTree                       *)
(* (packages/router/src/radix-tree.js) and the TypeScript Router with its  *)
(* iterative findRoute (packages/router/src/radix-tree.ts); the Router of   *)
(* packages/router/src/router.js and the request handling of the two       *)
(* EmberAPI frameworks.                                                    *)
(*                                                                         *)
(* Strings are sequences of atoms.  An atom is either one of the special   *)
(* characters the code inspects ("/", ":", "*", the escapes "%20" and a    *)
(* lone malformed "%") or a run of ordinary characters ("users", "42").    *)
(* "/users/:id" is <<"/", "users", "/", ":", "id">>.                       *)
(***************************************************************************)
EXTENDS Integers, Sequences, FiniteSets, TLC

VARIABLES jsTree, jsRoutes, tsRoot, tsPending, tsCompiled, last,
          router, tsApp, declared, req

\* the trees given registrations and lookups directly
treeVars == <<jsTree, jsRoutes, tsRoot, tsPending, tsCompiled, last>>

\* the state of an EmberAPI application: the Router of the JavaScript
\* framework or the EmberAPI object of the TypeScript framework, what the
\* application declared for each route, the request being handled
appVars == <<router, tsApp, declared, req>>

vars == <<jsTree, jsRoutes, tsRoot, tsPending, tsCompiled, last,
          router, tsApp, declared, req>>

(* ------------------------------ bounds --------------------------------- *)

\* number of registrations made on each router
MaxRoutes == 2

\* number of routes registered on an EmberAPI application
AppMaxRoutes == 1

\* number of plug() calls made on an EmberAPI application
MaxPlugs == 2

(* --------------------------- string helpers ---------------------------- *)

\* the undefined value left in the holes of a pre-allocated array
Undefined == <<"undefined", "undefined">>

\* String.prototype.startsWith for a one-character prefix
StartsWith(s, c) == Len(s) > 0 /\ s[1] = c

\* String.prototype.slice(1)
Slice1(s) == IF Len(s) = 0 THEN s ELSE Tail(s)

\* path.replace(/\/$/, ''): drops one trailing slash
StripTrailingSlash(s) ==
    IF Len(s) > 0 /\ s[Len(s)] = "/" THEN SubSeq(s, 1, Len(s) - 1) ELSE s

\* s.split('/').filter(Boolean); cur is the piece being collected
RECURSIVE SplitFrom(_, _, _)
SplitFrom(s, i, cur) ==
    IF i > Len(s) THEN (IF cur = <<>> THEN <<>> ELSE <<cur>>)
    ELSE IF s[i] = "/"
         THEN (IF cur = <<>> THEN <<>> ELSE <<cur>>) \o SplitFrom(s, i + 1, <<>>)
         ELSE SplitFrom(s, i + 1, Append(cur, s[i]))

SplitFilter(s) == SplitFrom(s, 1, <<>>)

\* parts.join('/')
RECURSIVE Join(_)
Join(parts) ==
    IF Len(parts) = 0 THEN <<>>
    ELSE IF Len(parts) = 1 THEN parts[1]
    ELSE parts[1] \o <<"/">> \o Join(Tail(parts))

\* atoms that begin with a percent sign
HasPercent(s) == \E i \in 1..Len(s) : s[i] \in {"%20", "%"}

\* decodeURIComponent throws URIError on a malformed escape
DecodeThrows(s) == \E i \in 1..Len(s) : s[i] = "%"

\* decodeURIComponent on a well-formed string: "%20" becomes a space
DecodeURIComponent(s) == [i \in 1..Len(s) |-> IF s[i] = "%20" THEN " " ELSE s[i]]

\* String.prototype.toUpperCase on a method token
ToUpperCase(m) ==
    CASE m = "get" -> "GET"
      [] m = "post" -> "POST"
      [] OTHER -> m

(* ------------------------------ the tree ------------------------------- *)
(* A node is identified by its position: the sequence of edges from the    *)
(* root.  A tree is a function from the positions of its nodes to nodes.   *)

StaticEdge(seg) == [kind |-> "static", seg |-> seg]
ParamEdge == [kind |-> "param", seg |-> <<>>]
WildcardEdge == [kind |-> "wildcard", seg |-> <<>>]

RootPos == <<>>

\* the absent paramName (null in radix-tree.js, undefined in radix-tree.ts)
NoName == <<"null", "null">>

EmptyParams == <<>>

\* params[name] = value
SetParam(params, name, value) == (name :> value) @@ params

\* delete params[name]
DeleteParam(params, name) == [k \in (DOMAIN params) \ {name} |-> params[k]]

EmptyMap == <<>>

\* Map.prototype.set
MapSet(map, key, value) == (key :> value) @@ map

(* ------------------- RadixTree (radix-tree.js) -------------------------- *)

\* new RadixNode(): no handler map, no parameter name
JsNewNode == [paramName |-> NoName, handler |-> EmptyMap]

\* the normalisation shared by addRoute and findRoute: "/" is kept as the
\* single segment "/", one trailing slash is dropped, empty pieces are removed
JsSegments(path) ==
    LET normalizedPath == IF path = <<"/">> THEN <<"/">> ELSE StripTrailingSlash(path)
    IN  IF normalizedPath = <<"/">> THEN << <<"/">> >> ELSE SplitFilter(normalizedPath)

\* the edge addRoute follows for a pattern segment
JsEdge(segment) ==
    IF StartsWith(segment, ":") THEN ParamEdge
    ELSE IF segment = <<"*">> \/ StartsWith(segment, "*") THEN WildcardEdge
    ELSE StaticEdge(segment)

\* the name given to a parameter or wildcard child when it is created
JsChildName(segment) ==
    IF StartsWith(segment, ":") THEN Slice1(segment)
    ELSE IF segment = <<"*">> THEN <<"wildcard">>
    ELSE IF StartsWith(segment, "*") THEN Slice1(segment)
    ELSE NoName

\* mutant of JsWalk: an existing parameter or wildcard child takes the name
\* of the segment that reaches it
RECURSIVE JsWalkRename(_, _, _, _)
JsWalkRename(tree, pos, segments, i) ==
    IF i > Len(segments) THEN [tree |-> tree, pos |-> pos]
    ELSE LET child == Append(pos, JsEdge(segments[i]))
             grown == IF child \in DOMAIN tree
                      THEN [tree EXCEPT ![child].paramName = JsChildName(segments[i])]
                      ELSE (child :> [JsNewNode EXCEPT !.paramName = JsChildName(segments[i])]) @@ tree
         IN  JsWalkRename(grown, child, segments, i + 1)

\* the loop of addRoute: walks the segments from node pos, creating the
\* missing children; gives the grown tree and the position of the leaf
RECURSIVE JsWalk(_, _, _, _)
JsWalk(tree, pos, segments, i) ==
    IF i > Len(segments) THEN [tree |-> tree, pos |-> pos]
    ELSE LET child == Append(pos, JsEdge(segments[i]))
             grown == IF child \in DOMAIN tree THEN tree
                      ELSE (child :> [JsNewNode EXCEPT !.paramName = JsChildName(segments[i])]) @@ tree
         IN  JsWalk(grown, child, segments, i + 1)

\* mutant of JsInsert: an entry already stored for the method is kept
JsInsertKeepFirst(tree, method, path, handler, middleware) ==
    LET w == JsWalk(tree, RootPos, JsSegments(path), 1)
        entry == [handler |-> handler, middleware |-> middleware]
    IN  IF method \in DOMAIN w.tree[w.pos].handler THEN w.tree
        ELSE [w.tree EXCEPT ![w.pos].handler = MapSet(@, method, entry)]

\* addRoute(method, path, handler, middleware) on the tree
JsInsert(tree, method, path, handler, middleware) ==
    LET w == JsWalk(tree, RootPos, JsSegments(path), 1)
        entry == [handler |-> handler, middleware |-> middleware]
    IN  [w.tree EXCEPT ![w.pos].handler = MapSet(@, method, entry)]

NoEntry == [handler |-> 0, middleware |-> <<>>]

\* segments.slice(index).map(decodeURIComponent).join('/'), index from 1
RestOf(segments, index) == SubSeq(segments, index, Len(segments))

RestThrows(segments, index) ==
    \E i \in index..Len(segments) : DecodeThrows(segments[i])

DecodedRest(segments, index) ==
    Join([i \in 1..Len(RestOf(segments, index)) |->
            DecodeURIComponent(RestOf(segments, index)[i])])

\* the wildcard step of _search: binds the rest, returns the wildcard child's
\* entry for the method if it has one, and null otherwise (the binding stays)
JsWildcardStep(tree, pos, segments, index, params, method) ==
    LET wpos == Append(pos, WildcardEdge)
    IN  IF wpos \notin DOMAIN tree
        THEN [status |-> "null", entry |-> NoEntry, params |-> params]
        ELSE IF RestThrows(segments, index)
        THEN [status |-> "throw", entry |-> NoEntry, params |-> params]
        ELSE LET bound == SetParam(params, tree[wpos].paramName, DecodedRest(segments, index))
             IN  IF method \in DOMAIN tree[wpos].handler
                 THEN [status |-> "found", entry |-> tree[wpos].handler[method], params |-> bound]
                 ELSE [status |-> "null", entry |-> NoEntry, params |-> bound]

\* _search(node, segments, index, params, method); index counts from 1 here,
\* so the end of the path is index = Len(segments) + 1.  The params object is
\* shared and mutated by the code: the result carries its value on return.
RECURSIVE JsSearch(_, _, _, _, _, _)
\* mutant of JsParamStep: the wildcard child is tried before the parameter
JsParamStepWildcardFirst(tree, pos, segments, index, params, method) ==
    LET ppos == Append(pos, ParamEdge)
        w == JsWildcardStep(tree, pos, segments, index, params, method)
    IN  IF w.status # "null" \/ ppos \notin DOMAIN tree \/ DecodeThrows(segments[index])
        THEN w
        ELSE JsSearch(tree, ppos, segments, index + 1,
                      SetParam(w.params, tree[ppos].paramName,
                               DecodeURIComponent(segments[index])), method)

\* mutant of JsParamStep: the abandoned binding is not deleted
JsParamStepNoUnbind(tree, pos, segments, index, params, method) ==
    LET ppos == Append(pos, ParamEdge)
    IN  IF ppos \notin DOMAIN tree
        THEN JsWildcardStep(tree, pos, segments, index, params, method)
        ELSE IF DecodeThrows(segments[index])
        THEN [status |-> "throw", entry |-> NoEntry, params |-> params]
        ELSE LET name == tree[ppos].paramName
                 r == JsSearch(tree, ppos, segments, index + 1,
                               SetParam(params, name, DecodeURIComponent(segments[index])), method)
             IN  IF r.status # "null" THEN r
                 ELSE JsWildcardStep(tree, pos, segments, index, r.params, method)

\* the parameter step of _search and what follows it
JsParamStep(tree, pos, segments, index, params, method) ==
    LET ppos == Append(pos, ParamEdge)
    IN  IF ppos \notin DOMAIN tree
        THEN JsWildcardStep(tree, pos, segments, index, params, method)
        ELSE IF DecodeThrows(segments[index])
        THEN [status |-> "throw", entry |-> NoEntry, params |-> params]
        ELSE LET name == tree[ppos].paramName
                 r == JsSearch(tree, ppos, segments, index + 1,
                               SetParam(params, name, DecodeURIComponent(segments[index])), method)
             IN  IF r.status # "null" THEN r
                 ELSE JsWildcardStep(tree, pos, segments, index,
                                     DeleteParam(r.params, name), method)

\* mutant of JsSearch: the static child is tried after the other two
JsSearchStaticLast(tree, pos, segments, index, params, method) ==
    IF index = Len(segments) + 1
    THEN IF method \in DOMAIN tree[pos].handler
         THEN [status |-> "found", entry |-> tree[pos].handler[method], params |-> params]
         ELSE [status |-> "null", entry |-> NoEntry, params |-> params]
    ELSE LET spos == Append(pos, StaticEdge(segments[index]))
             r == JsParamStep(tree, pos, segments, index, params, method)
         IN  IF r.status # "null" \/ spos \notin DOMAIN tree THEN r
             ELSE JsSearch(tree, spos, segments, index + 1, r.params, method)

\* mutant of JsSearch: the result of the static child is returned as it is
JsSearchNoFallthrough(tree, pos, segments, index, params, method) ==
    IF index = Len(segments) + 1
    THEN IF method \in DOMAIN tree[pos].handler
         THEN [status |-> "found", entry |-> tree[pos].handler[method], params |-> params]
         ELSE [status |-> "null", entry |-> NoEntry, params |-> params]
    ELSE LET spos == Append(pos, StaticEdge(segments[index]))
         IN  IF spos \in DOMAIN tree
             THEN JsSearch(tree, spos, segments, index + 1, params, method)
             ELSE JsParamStep(tree, pos, segments, index, params, method)

JsSearch(tree, pos, segments, index, params, method) ==
    IF index = Len(segments) + 1
    THEN IF method \in DOMAIN tree[pos].handler
         THEN [status |-> "found", entry |-> tree[pos].handler[method], params |-> params]
         ELSE [status |-> "null", entry |-> NoEntry, params |-> params]
    ELSE LET spos == Append(pos, StaticEdge(segments[index]))
         IN  IF spos \in DOMAIN tree
             THEN LET r == JsSearch(tree, spos, segments, index + 1, params, method)
                  IN  IF r.status # "null" THEN r
                      ELSE JsParamStep(tree, pos, segments, index, r.params, method)
             ELSE JsParamStep(tree, pos, segments, index, params, method)

\* what a lookup gives back: a match, null, or an exception
NullResult == [status |-> "null", handler |-> 0, middleware |-> <<>>, params |-> EmptyParams]
ThrowResult == [status |-> "throw", handler |-> 0, middleware |-> <<>>, params |-> EmptyParams]
Match(handler, middleware, params) ==
    [status |-> "found", handler |-> handler, middleware |-> middleware, params |-> params]

\* mutant of JsFindRoute: a method without a route falls back to GET
JsFindRouteGetFallback(tree, method, path) ==
    LET own == JsSearch(tree, RootPos, JsSegments(path), 1, EmptyParams, method)
        r == IF own.status = "null"
             THEN JsSearch(tree, RootPos, JsSegments(path), 1, EmptyParams, "GET")
             ELSE own
    IN  CASE r.status = "found" -> Match(r.entry.handler, r.entry.middleware, r.params)
          [] r.status = "throw" -> ThrowResult
          [] OTHER -> NullResult

\* findRoute(method, path) of RadixTree
JsFindRoute(tree, method, path) ==
    LET r == JsSearch(tree, RootPos, JsSegments(path), 1, EmptyParams, method)
    IN  CASE r.status = "found" -> Match(r.entry.handler, r.entry.middleware, r.params)
          [] r.status = "throw" -> ThrowResult
          [] OTHER -> NullResult

\* the status with which _search returns from the child at cpos, null when
\* the child is missing; the status does not depend on the params passed in
JsStatusAt(tree, cpos, segments, index, method) ==
    IF cpos \in DOMAIN tree
    THEN JsSearch(tree, cpos, segments, index, EmptyParams, method).status
    ELSE "null"

RECURSIVE JsVisits(_, _, _, _, _)
\* mutant of JsVisits: the static child is searched again after the parameter
\* child gave no match
JsVisitsRetryStatic(tree, pos, segments, index, method) ==
    IF index = Len(segments) + 1 THEN 1
    ELSE LET spos == Append(pos, StaticEdge(segments[index]))
             ppos == Append(pos, ParamEdge)
             static == IF spos \in DOMAIN tree
                       THEN JsVisits(tree, spos, segments, index + 1, method) ELSE 0
         IN  IF JsStatusAt(tree, spos, segments, index + 1, method) # "null" THEN 1 + static
             ELSE IF ppos \notin DOMAIN tree \/ DecodeThrows(segments[index]) THEN 1 + static
             ELSE IF JsStatusAt(tree, ppos, segments, index + 1, method) # "null"
             THEN 1 + static + JsVisits(tree, ppos, segments, index + 1, method)
             ELSE 1 + static + JsVisits(tree, ppos, segments, index + 1, method) + static

\* the number of calls of _search that _search(node, segments, index, ...)
\* makes, itself included: one for the node, those of the static child when
\* there is one, and those of the parameter child when the static child gave
\* no match and the segment decodes.  The wildcard child is read in place.
JsVisits(tree, pos, segments, index, method) ==
    IF index = Len(segments) + 1 THEN 1
    ELSE LET spos == Append(pos, StaticEdge(segments[index]))
             ppos == Append(pos, ParamEdge)
             static == IF spos \in DOMAIN tree
                       THEN JsVisits(tree, spos, segments, index + 1, method) ELSE 0
         IN  IF JsStatusAt(tree, spos, segments, index + 1, method) # "null" THEN 1 + static
             ELSE IF ppos \notin DOMAIN tree \/ DecodeThrows(segments[index]) THEN 1 + static
             ELSE 1 + static + JsVisits(tree, ppos, segments, index + 1, method)

(* ------------------- RouteCompiler (compiler.js) ------------------------ *)

\* the part compile() pushes for one segment of a route path
CompilePart(segment) ==
    IF StartsWith(segment, ":") THEN [type |-> "param", name |-> Slice1(segment)]
    ELSE IF segment = <<"*">> THEN [type |-> "wildcard", name |-> <<"wildcard">>]
    ELSE IF StartsWith(segment, "*") THEN [type |-> "wildcard", name |-> Slice1(segment)]
    ELSE [type |-> "static", name |-> segment]

\* compile(path).pattern: one part for every non-empty segment of the path
compile(path) == [i \in 1..Len(SplitFilter(path)) |-> CompilePart(SplitFilter(path)[i])]

\* decodeURIComponent(segments[i]): a missing segment reads as undefined
SegmentAt(segments, i) == IF i <= Len(segments) THEN segments[i] ELSE Undefined

\* extractParams(pattern, segments) from part i on: a parameter part binds
\* the decoded segment at its index, a wildcard part binds the decoded rest
\* joined with "/" and ends the loop
RECURSIVE ExtractFrom(_, _, _, _)
ExtractFrom(pattern, segments, i, params) ==
    IF i > Len(pattern) THEN [status |-> "ok", params |-> params]
    ELSE IF pattern[i].type = "param"
    THEN IF DecodeThrows(SegmentAt(segments, i)) THEN [status |-> "throw", params |-> params]
         ELSE ExtractFrom(pattern, segments, i + 1,
                          SetParam(params, pattern[i].name,
                                   DecodeURIComponent(SegmentAt(segments, i))))
    ELSE IF pattern[i].type = "wildcard"
    THEN IF RestThrows(segments, i) THEN [status |-> "throw", params |-> params]
         ELSE [status |-> "ok",
               params |-> SetParam(params, pattern[i].name, DecodedRest(segments, i))]
    ELSE ExtractFrom(pattern, segments, i + 1, params)

extractParams(pattern, segments) == ExtractFrom(pattern, segments, 1, EmptyParams)

(* ------------- radix-tree.ts and the TypeScript Router ------------------ *)

\* createNode(path)
createNode(path) == [path |-> path, paramName |-> NoName, routes |-> EmptyMap]

\* the edge insertRoute follows: only a segment equal to "*" is a wildcard
TsEdge(segment) ==
    IF StartsWith(segment, ":") THEN ParamEdge
    ELSE IF segment = <<"*">> THEN WildcardEdge
    ELSE StaticEdge(segment)

\* the child insertRoute creates for a segment
TsNewChild(segment) ==
    IF StartsWith(segment, ":")
    THEN [createNode(segment) EXCEPT !.paramName = Slice1(segment)]
    ELSE createNode(segment)

\* the paramNames loop of compileRoute
RECURSIVE ParamNamesOf(_, _)
ParamNamesOf(segments, i) ==
    IF i > Len(segments) THEN <<>>
    ELSE (IF StartsWith(segments[i], ":") THEN << Slice1(segments[i]) >>
          ELSE IF segments[i] = <<"*">> THEN << <<"*">> >>
          ELSE <<>>) \o ParamNamesOf(segments, i + 1)

\* compileRoute(pattern, handler, middleware); the regex matcher it also
\* builds is not used by the tree lookup
compileRoute(pattern, handler, middleware) ==
    [pattern |-> pattern, handler |-> handler, middleware |-> middleware,
     paramNames |-> ParamNamesOf(SplitFilter(pattern), 1)]

\* the loop of insertRoute
RECURSIVE TsWalk(_, _, _, _)
TsWalk(tree, pos, segments, i) ==
    IF i > Len(segments) THEN [tree |-> tree, pos |-> pos]
    ELSE LET child == Append(pos, TsEdge(segments[i]))
             grown == IF child \in DOMAIN tree THEN tree
                      ELSE (child :> TsNewChild(segments[i])) @@ tree
         IN  TsWalk(grown, child, segments, i + 1)

\* insertRoute(root, method, route)
insertRoute(tree, method, route) ==
    LET w == TsWalk(tree, RootPos, SplitFilter(route.pattern), 1)
    IN  [w.tree EXCEPT ![w.pos].routes = MapSet(@, ToUpperCase(method), route)]

\* the tree forge() builds: a fresh root, then every pending route in order
RECURSIVE InsertAll(_, _, _)
InsertAll(tree, pending, i) ==
    IF i > Len(pending) THEN tree
    ELSE InsertAll(insertRoute(tree, pending[i].method,
                               compileRoute(pending[i].pattern, pending[i].handler,
                                            pending[i].middleware)),
                   pending, i + 1)

EmptyTsTree == (RootPos :> createNode(<<>>))

\* getAllRoutes(root): one entry for every method of the routes map of every
\* node, with the pattern of the route stored there (as a set: the order of
\* the traversal is left out)
getAllRoutes(tree) ==
    UNION {{[method |-> m, pattern |-> tree[pos].routes[m].pattern] :
               m \in DOMAIN tree[pos].routes} : pos \in DOMAIN tree}

\* segmentCount of findRoute: the slashes after the first character, plus one
SegmentCount(path) ==
    Cardinality({i \in 2..Len(path) : path[i] = "/"}) + (IF Len(path) > 1 THEN 1 ELSE 0)

\* the pre-allocated segments array: the non-empty pieces after the first
\* character, the remaining slots left undefined
TsSegments(path) ==
    LET filled == SplitFrom(path, 2, <<>>)
    IN  [i \in 1..SegmentCount(path) |-> IF i <= Len(filled) THEN filled[i] ELSE Undefined]

\* segment.indexOf('%') === -1 ? segment : decodeURIComponent(segment)
TsDecodeThrows(segment) == segment = Undefined \/ DecodeThrows(segment)
TsDecode(segment) == IF HasPercent(segment) THEN DecodeURIComponent(segment) ELSE segment

TsMatch(route, params) == Match(route.handler, route.middleware, params)

\* the single-segment fast path of findRoute
TsSingleSegment(tree, methodUpper, segment) ==
    LET spos == << StaticEdge(segment) >>
        ppos == << ParamEdge >>
        wpos == << WildcardEdge >>
    IN  IF spos \in DOMAIN tree /\ methodUpper \in DOMAIN tree[spos].routes
        THEN TsMatch(tree[spos].routes[methodUpper], EmptyParams)
        ELSE IF ppos \in DOMAIN tree /\ methodUpper \in DOMAIN tree[ppos].routes
        THEN IF TsDecodeThrows(segment) THEN ThrowResult
             ELSE TsMatch(tree[ppos].routes[methodUpper],
                          SetParam(EmptyParams, tree[ppos].paramName, TsDecode(segment)))
        ELSE IF wpos \in DOMAIN tree /\ methodUpper \in DOMAIN tree[wpos].routes
        THEN IF TsDecodeThrows(segment) THEN ThrowResult
             ELSE TsMatch(tree[wpos].routes[methodUpper],
                          SetParam(EmptyParams, <<"*">>, TsDecode(segment)))
        ELSE NullResult

\* the while (true) loop of findRoute; segmentIndex counts from 1 here, so
\* the end of the path is segmentIndex = segmentCount + 1
RECURSIVE TsLoop(_, _, _, _, _, _)
\* "backtrack": pop a state, drop its parameter, resume at its node and index
TsBacktrack(tree, segments, methodUpper, params, stack) ==
    IF Len(stack) = 0 THEN NullResult
    ELSE LET state == stack[Len(stack)]
         IN  TsLoop(tree, segments, methodUpper, state.node, state.index,
                    [params |-> IF state.paramName # <<>>
                                THEN DeleteParam(params, state.paramName) ELSE params,
                     stack |-> SubSeq(stack, 1, Len(stack) - 1)])

\* the wildcard step of the loop and the backtrack that follows it
TsWildcardStep(tree, segments, methodUpper, node, segmentIndex, params, stack) ==
    LET wpos == Append(node, WildcardEdge)
    IN  IF wpos \notin DOMAIN tree
        THEN TsBacktrack(tree, segments, methodUpper, params, stack)
        ELSE IF \E i \in segmentIndex..Len(segments) : TsDecodeThrows(segments[i])
        THEN ThrowResult
        ELSE LET wildcardPath == Join(RestOf(segments, segmentIndex))
                 bound == SetParam(params, <<"*">>, TsDecode(wildcardPath))
             IN  IF methodUpper \in DOMAIN tree[wpos].routes
                 THEN TsMatch(tree[wpos].routes[methodUpper], bound)
                 ELSE TsBacktrack(tree, segments, methodUpper, bound, stack)

TsLoop(tree, segments, methodUpper, node, segmentIndex, ps) ==
    IF segmentIndex = Len(segments) + 1
    THEN IF methodUpper \in DOMAIN tree[node].routes
         THEN TsMatch(tree[node].routes[methodUpper], ps.params)
         ELSE TsBacktrack(tree, segments, methodUpper, ps.params, ps.stack)
    ELSE LET segment == segments[segmentIndex]
             spos == Append(node, StaticEdge(segment))
             ppos == Append(node, ParamEdge)
         IN  IF segment # Undefined /\ spos \in DOMAIN tree
             THEN TsLoop(tree, segments, methodUpper, spos, segmentIndex + 1, ps)
             ELSE IF ppos \in DOMAIN tree
             THEN IF TsDecodeThrows(segment) THEN ThrowResult
                  ELSE LET paramName == tree[ppos].paramName
                       IN  TsLoop(tree, segments, methodUpper, ppos, segmentIndex + 1,
                                  [params |-> SetParam(ps.params, paramName, TsDecode(segment)),
                                   stack |-> Append(ps.stack,
                                       [node |-> ppos, index |-> segmentIndex + 1,
                                        paramName |-> paramName])])
             ELSE TsWildcardStep(tree, segments, methodUpper, node, segmentIndex,
                                 ps.params, ps.stack)

\* the iterations of the while (true) loop of findRoute are counted up to
\* this number
MaxIterations == 40

\* the number of times the body of the while (true) loop is entered when
\* the loop is at node and segmentIndex with this stack, count iterations
\* having been made; the loop is left by a return or by an exception.  The
\* params do not steer the loop and are left out.
RECURSIVE TsIterations(_, _, _, _, _, _, _)
\* mutant of TsPop: the state is read but stays on the stack
TsPopKeepState(tree, segments, methodUpper, stack, count) ==
    IF Len(stack) = 0 THEN count
    ELSE TsIterations(tree, segments, methodUpper, stack[Len(stack)].node,
                      stack[Len(stack)].index, stack, count)

\* "backtrack": return null on an empty stack, else pop a state and go on
\* with its node and index
TsPop(tree, segments, methodUpper, stack, count) ==
    IF Len(stack) = 0 THEN count
    ELSE TsIterations(tree, segments, methodUpper, stack[Len(stack)].node,
                      stack[Len(stack)].index, SubSeq(stack, 1, Len(stack) - 1), count)

TsIterations(tree, segments, methodUpper, node, segmentIndex, stack, count) ==
    IF count >= MaxIterations THEN count + 1
    ELSE IF segmentIndex = Len(segments) + 1
    THEN IF methodUpper \in DOMAIN tree[node].routes THEN count + 1
         ELSE TsPop(tree, segments, methodUpper, stack, count + 1)
    ELSE LET segment == segments[segmentIndex]
             spos == Append(node, StaticEdge(segment))
             ppos == Append(node, ParamEdge)
             wpos == Append(node, WildcardEdge)
         IN  IF segment # Undefined /\ spos \in DOMAIN tree
             THEN TsIterations(tree, segments, methodUpper, spos, segmentIndex + 1,
                               stack, count + 1)
             ELSE IF ppos \in DOMAIN tree
             THEN IF TsDecodeThrows(segment) THEN count + 1
                  ELSE TsIterations(tree, segments, methodUpper, ppos, segmentIndex + 1,
                                    Append(stack, [node |-> ppos, index |-> segmentIndex + 1]),
                                    count + 1)
             ELSE IF wpos \in DOMAIN tree
                     /\ (\/ \E i \in segmentIndex..Len(segments) : TsDecodeThrows(segments[i])
                         \/ methodUpper \in DOMAIN tree[wpos].routes)
             THEN count + 1
             ELSE TsPop(tree, segments, methodUpper, stack, count + 1)

\* the iterations of the loop in findRoute(root, method, path): none on the
\* fast paths for the root and for a single segment
LoopIterations(tree, method, path) ==
    IF path = <<"/">> \/ path = <<>> \/ SegmentCount(path) = 1 THEN 0
    ELSE TsIterations(tree, TsSegments(path), ToUpperCase(method), RootPos, 1, <<>>, 0)

\* findRoute(root, method, path) of radix-tree.ts
findRoute(tree, method, path) ==
    LET methodUpper == ToUpperCase(method)
    IN  IF path = <<"/">> \/ path = <<>>
        THEN IF methodUpper \in DOMAIN tree[RootPos].routes
             THEN TsMatch(tree[RootPos].routes[methodUpper], EmptyParams)
             ELSE NullResult
        ELSE IF SegmentCount(path) = 1
        THEN TsSingleSegment(tree, methodUpper, TsSegments(path)[1])
        ELSE TsLoop(tree, TsSegments(path), methodUpper, RootPos, 1,
                    [params |-> EmptyParams, stack |-> <<>>])

(* --------- the recursive lookup of the TypeScript tree (part_005) -------- *)

\* searchNode(node, segments, index, params, method); index counts from 1
\* here.  The params object is shared: the result carries its value on return.
RECURSIVE searchNode(_, _, _, _, _, _)
\* the wildcard step of searchNode: binds "*" to the decoded rest and returns
\* the wildcard child's route for the method, or null
SearchNodeWildcard(tree, pos, segments, index, params, method) ==
    LET wpos == Append(pos, WildcardEdge)
    IN  IF wpos \notin DOMAIN tree
        THEN [status |-> "null", route |-> NoEntry, params |-> params]
        ELSE IF RestThrows(segments, index)
        THEN [status |-> "throw", route |-> NoEntry, params |-> params]
        ELSE LET bound == SetParam(params, <<"*">>, DecodedRest(segments, index))
             IN  IF method \in DOMAIN tree[wpos].routes
                 THEN [status |-> "found", route |-> tree[wpos].routes[method], params |-> bound]
                 ELSE [status |-> "null", route |-> NoEntry, params |-> bound]

\* the parameter step of searchNode and what follows it
SearchNodeParam(tree, pos, segments, index, params, method) ==
    LET ppos == Append(pos, ParamEdge)
    IN  IF ppos \notin DOMAIN tree
        THEN SearchNodeWildcard(tree, pos, segments, index, params, method)
        ELSE IF DecodeThrows(segments[index])
        THEN [status |-> "throw", route |-> NoEntry, params |-> params]
        ELSE LET paramName == tree[ppos].paramName
                 r == searchNode(tree, ppos, segments, index + 1,
                                 SetParam(params, paramName, DecodeURIComponent(segments[index])),
                                 method)
             IN  IF r.status # "null" THEN r
                 ELSE SearchNodeWildcard(tree, pos, segments, index,
                                         DeleteParam(r.params, paramName), method)

searchNode(tree, pos, segments, index, params, method) ==
    IF index = Len(segments) + 1
    THEN IF method \in DOMAIN tree[pos].routes
         THEN [status |-> "found", route |-> tree[pos].routes[method], params |-> params]
         ELSE [status |-> "null", route |-> NoEntry, params |-> params]
    ELSE LET spos == Append(pos, StaticEdge(segments[index]))
         IN  IF spos \in DOMAIN tree
             THEN LET r == searchNode(tree, spos, segments, index + 1, params, method)
                  IN  IF r.status # "null" THEN r
                      ELSE SearchNodeParam(tree, pos, segments, index, r.params, method)
             ELSE SearchNodeParam(tree, pos, segments, index, params, method)

\* findRoute(root, method, path) of part_005
findRouteRecursive(tree, method, path) ==
    LET r == searchNode(tree, RootPos, SplitFilter(path), 1, EmptyParams, ToUpperCase(method))
    IN  CASE r.status = "found" -> Match(r.route.handler, r.route.middleware, r.params)
          [] r.status = "throw" -> ThrowResult
          [] OTHER -> NullResult

(* --------------------------- the inputs --------------------------------- *)

Methods == {"GET", "POST"}

\* route patterns offered to registration
UsersActive == <<"/", "users", "/", "active">>
UsersId == <<"/", "users", "/", ":", "id">>
UsersStar == <<"/", "users", "/", "*">>
UsersActiveSettings == <<"/", "users", "/", "active", "/", "settings">>
UsersIdPosts == <<"/", "users", "/", ":", "id", "/", "posts">>
FilesName == <<"/", "files", "/", ":", "name">>
FilesStar == <<"/", "files", "/", "*">>
FilesStarPath == <<"/", "files", "/", "*", "path">>
RootPattern == <<"/">>
RootStar == <<"/", "*">>

Patterns == {UsersActive, UsersId, UsersStar, UsersActiveSettings, UsersIdPosts,
             FilesName, FilesStar, FilesStarPath, RootPattern, RootStar}

\* request paths offered to lookup: empty, or beginning with a slash
Paths == {<<>>, <<"/">>,
          <<"/", "users", "/", "active">>,
          <<"/", "users", "/", "42">>, <<"/", "users", "/", "42", "/">>,
          <<"/", "users", "/", "active", "/", "posts">>,
          <<"/", "users", "/", "a", "%20", "b">>, <<"/", "users", "/", "%", "zz">>,
          <<"/", "files">>, <<"/", "files", "/", "a", "/", "b">>,
          <<"/", "files", "/", "a", "/", "b", "/", "c.txt">>}

(* ------------------------- the state machine ---------------------------- *)
(* The RadixTree of radix-tree.js and the TypeScript Router are given the   *)
(* same registrations and the same lookups.                                 *)

NoLookup == [op |-> "none", method |-> "", path |-> <<>>, js |-> NullResult, ts |-> NullResult]

\* new EmberAPI() of the JavaScript framework, with its new Router() of
\* router.js: no error handler is registered
NewRouter ==
    [tree |-> (RootPos :> JsNewNode), routes |-> <<>>, globalMiddleware |-> <<>>,
     compiled |-> FALSE, routeGroups |-> <<>>, errorHandler |-> "none"]

\* new EmberAPI() of the TypeScript framework, with its new Router()
NewEmberAPI ==
    [root |-> EmptyTsTree, pendingRoutes |-> <<>>, compiled |-> FALSE,
     globalMiddleware |-> <<>>]

\* no Response: the null of middlewareResponse, the undefined a middleware returns
NoResponse == [status |-> 0, by |-> "none", index |-> 0]

\* no request is being handled and none has been.  For a request: the
\* match, the variables middlewareIndex and middlewareResponse of
\* handleRequest, the invocation of each middleware of the chain (mw), the
\* calls of next() made so far (calls), the microtask queue of continuations
\* waiting to run (queue), what was invoked (trace) and what was sent (sent);
\* returns is what the route handler does for this request
NoRequest ==
    [phase |-> "idle", framework |-> "none", method |-> "", url |-> <<>>,
     authorized |-> FALSE, returns |-> "response", match |-> NullResult, middlewareIndex |-> 0, middlewareResponse |-> NoResponse,
     mw |-> <<>>, calls |-> <<>>, queue |-> <<>>, trace |-> <<>>, sent |-> <<>>]

Init ==
    /\ jsTree = (RootPos :> JsNewNode)
    /\ jsRoutes = <<>>
    /\ tsRoot = EmptyTsTree
    /\ tsPending = <<>>
    /\ tsCompiled = FALSE
    /\ last = NoLookup
    /\ router = NewRouter
    /\ tsApp = NewEmberAPI
    /\ declared = <<>>
    /\ req = NoRequest

\* mutant of AddRoute: Router.addRoute leaves the compiled flag as it is
AddRouteKeepCompiled(method, pattern) ==
    LET handler == Len(jsRoutes) + 1
        middleware == << handler >>
    IN  /\ Len(jsRoutes) < MaxRoutes
        /\ jsRoutes' = Append(jsRoutes, [method |-> method, path |-> pattern,
                                         handler |-> handler, middleware |-> middleware])
        /\ jsTree' = JsInsert(jsTree, method, pattern, handler, middleware)
        /\ tsPending' = Append(tsPending, [method |-> method, pattern |-> pattern,
                                           handler |-> handler, middleware |-> middleware])
        /\ last' = NoLookup
        /\ UNCHANGED <<tsRoot, tsCompiled>>
        /\ UNCHANGED appVars

\* RadixTree.addRoute and Router.addRoute (TypeScript) with the same route;
\* every registration passes a handler and one middleware of its own, both
\* named by the number of the registration
AddRoute(method, pattern) ==
    LET handler == Len(jsRoutes) + 1
        middleware == << handler >>
    IN  /\ Len(jsRoutes) < MaxRoutes
        /\ jsRoutes' = Append(jsRoutes, [method |-> method, path |-> pattern,
                                         handler |-> handler, middleware |-> middleware])
        /\ jsTree' = JsInsert(jsTree, method, pattern, handler, middleware)
        /\ tsPending' = Append(tsPending, [method |-> method, pattern |-> pattern,
                                           handler |-> handler, middleware |-> middleware])
        /\ tsCompiled' = FALSE
        /\ last' = NoLookup
        /\ UNCHANGED tsRoot
        /\ UNCHANGED appVars

\* the root forge() leaves behind
Forged == IF tsCompiled THEN tsRoot ELSE InsertAll(EmptyTsTree, tsPending, 1)

\* Router.forge() (TypeScript)
Forge ==
    /\ tsRoot' = Forged
    /\ tsCompiled' = TRUE
    /\ UNCHANGED <<jsTree, jsRoutes, tsPending, last>>
    /\ UNCHANGED appVars

\* RadixTree.findRoute and Router.match (TypeScript) on the same request
Lookup(method, path) ==
    /\ tsRoot' = Forged
    /\ tsCompiled' = TRUE
    /\ last' = [op |-> "lookup", method |-> method, path |-> path,
                js |-> JsFindRoute(jsTree, method, path),
                ts |-> findRoute(Forged, method, path)]
    /\ UNCHANGED <<jsTree, jsRoutes, tsPending>>
    /\ UNCHANGED appVars

Next ==
    \/ \E method \in Methods, pattern \in Patterns : AddRoute(method, pattern)
    \/ Forge
    \/ \E method \in Methods, path \in Paths : Lookup(method, path)

Spec == Init /\ [][Next]_vars

(* ---- registrations that share a parameter position, odd patterns ---- *)

AXB == <<"/", "a", "/", ":", "x", "/", "b">>
AYC == <<"/", "a", "/", ":", "y", "/", "c">>
ABareColon == <<"/", "a", "/", ":">>
AStarC == <<"/", "a", "/", "*", "/", "c">>
AYB == <<"/", "a", "/", ":", "y", "/", "b">>
\* a static segment that is not a valid percent-encoding
PPercent == <<"/", ":", "p", "/", "%", "zz">>
NamePatterns == {AXB, AYC, ABareColon, AStarC, AYB, PPercent}

A1B == <<"/", "a", "/", "1", "/", "b">>
A1C == <<"/", "a", "/", "1", "/", "c">>
A1 == <<"/", "a", "/", "1">>
APercent == <<"/", "a", "/", "%", "zz">>
NamePaths == {A1B, A1C, A1, APercent}

\* Router.routes() (TypeScript): forges when needed and lists the tree
Routes ==
    /\ tsRoot' = Forged
    /\ tsCompiled' = TRUE
    /\ last' = [NoLookup EXCEPT !.op = "routes"]
    /\ UNCHANGED <<jsTree, jsRoutes, tsPending>>
    /\ UNCHANGED appVars

NameNext ==
    \/ \E method \in Methods, pattern \in NamePatterns : AddRoute(method, pattern)
    \/ Forge
    \/ Routes
    \/ \E method \in Methods, path \in NamePaths : Lookup(method, path)

NameSpec == Init /\ [][NameNext]_vars

(* ------------- Router (router.js) and EmberAPI (JavaScript) ------------- *)
(* An application declares global middleware and routes, alone or in a       *)
(* group, and then handles requests one at a time.  handleRequest is an      *)
(* async function: it is cut at its awaits, and the continuations run in     *)
(* the order of the microtask queue.  An application is built on one of     *)
(* the two frameworks.                                                       *)

\* the application uses the JavaScript framework / the TypeScript framework
JsInUse == router # NewRouter
TsInUse == tsApp # NewEmberAPI

\* the middleware functions an application registers:
\*   "log"    awaits next() and returns nothing
\*   "auth"   returns a Response without calling next() when the request is
\*            not authorized, awaits next() otherwise
\*   "fire"   calls next() without awaiting it and returns nothing
\*   "verify" is "auth" after awaiting an asynchronous check of the request
\*   "boom"   throws
Middlewares == {"log", "auth", "fire", "verify", "boom"}

\* what a middleware function does when it is invoked: it awaits next()
\* ("pass"), calls next() without await ("fire"), returns a Response
\* ("deny"), awaits something else first ("io") or throws ("throw")
Behaviour(mw, authorized) ==
    IF mw = "log" THEN "pass"
    ELSE IF mw = "fire" THEN "fire"
    ELSE IF mw = "verify" THEN "io"
    ELSE IF mw = "boom" THEN "throw"
    ELSE IF authorized THEN "pass" ELSE "deny"

\* what "verify" does once its asynchronous check has completed
AfterIo(authorized) == IF authorized THEN "pass" ELSE "deny"

\* the Response a middleware of the chain returns
MiddlewareResponse(mw, index) ==
    [status |-> IF mw \in {"auth", "verify"} THEN 401 ELSE 200, by |-> "middleware",
     index |-> index]

HandlerResponse == [status |-> 200, by |-> "handler", index |-> 0]
NotFoundResponse == [status |-> 404, by |-> "notFound", index |-> 0]
ServerErrorResponse == [status |-> 500, by |-> "error", index |-> 0]
\* res.send(result) for what the handler returned when it is no Response
SendResultResponse == [status |-> 200, by |-> "send", index |-> 0]
\* the Response an error handler returns, and the one handleRequest makes
\* when the error handler returned no Response
ErrorHandlerResponse == [status |-> 500, by |-> "errorHandler", index |-> 0]
ErrorJsonResponse == [status |-> 500, by |-> "errorJson", index |-> 0]

\* what a route handler does: it returns a Response, another value or
\* undefined, or it throws
HandlerReturns == {"response", "value", "undefined", "throws"}
\* the handlers of an application that answers every request itself
RespondingHandlers == {"response"}

\* what an error handler registered with catch() does: it returns a
\* Response or another value, or it throws
ErrorHandlers == {"response", "value", "throws"}

Protected == <<"/", "protected">>
AppPatterns == {Protected}
Prefixes == {<<"/", "api", "/">>}
PlugMiddleware == {"log", "fire"}
GroupMiddleware == {<<"auth", "log">>}
RouteMiddleware == {<<>>, <<"fire", "verify">>}
Urls == {<<"/", "api", "/", "protected">>, <<"/", "nonexistent">>,
         <<"/", "protected", "?", "q">>}

\* routes and middleware are declared, and the next request arrives, when
\* nothing of the previous request is left to run
Quiet ==
    /\ req.phase \in {"idle", "done"}
    /\ req.queue = <<>>
    /\ \A index \in 1..Len(req.mw) : req.mw[index].state # "io"

\* Router.plug(middleware)
Plug(mw) ==
    /\ Quiet /\ ~TsInUse
    /\ Len(router.globalMiddleware) < MaxPlugs
    /\ router' = [router EXCEPT !.globalMiddleware = Append(@, mw)]
    /\ UNCHANGED <<treeVars, tsApp, declared, req>>

\* this.tree.addRoute(method, path, handler, middleware) on the tree of a Router
RouterAddRoute(r, method, path, handler, middleware) ==
    [r EXCEPT !.tree = JsInsert(r.tree, method, path, handler, middleware),
              !.routes = Append(@, [method |-> method, path |-> path,
                                    handler |-> handler, middleware |-> middleware])]

\* Router.get / Router.post: a route outside any group
RouterGet(method, path, middleware) ==
    LET handler == Len(router.routes) + 1
    IN  /\ Quiet /\ ~TsInUse
        /\ Len(router.routes) < AppMaxRoutes
        /\ router' = RouterAddRoute(router, method, path, handler, middleware)
        /\ declared' = Append(declared, [grouped |-> FALSE, group |-> <<>>, own |-> middleware])
        /\ UNCHANGED <<treeVars, tsApp, req>>

\* the prefix Router.ember keeps: one trailing "/" is dropped
EmberPrefix(prefix) ==
    IF Len(prefix) > 0 /\ prefix[Len(prefix)] = "/"
    THEN SubSeq(prefix, 1, Len(prefix) - 1) ELSE prefix

\* Router.ember(prefix, callback, ...groupMiddleware) with a callback that
\* registers one route: scopedRouter.get(path, handler, ...middleware), which
\* is _addGroupRoute
Ember(prefix, groupMiddleware, method, path, middleware) ==
    LET handler == Len(router.routes) + 1
        group == [prefix |-> EmberPrefix(prefix), middleware |-> groupMiddleware]
        fullPath == group.prefix \o path
        allMiddleware == group.middleware \o middleware
    IN  /\ Quiet /\ ~TsInUse
        /\ Len(router.routes) < AppMaxRoutes
        /\ router' = [RouterAddRoute(router, method, fullPath, handler, allMiddleware)
                         EXCEPT !.routeGroups = Append(@, group)]
        /\ declared' = Append(declared, [grouped |-> TRUE, group |-> groupMiddleware,
                                         own |-> middleware])
        /\ UNCHANGED <<treeVars, tsApp, req>>

\* path.split('?')[0]
RECURSIVE PathOnly(_)
PathOnly(path) ==
    IF path = <<>> \/ Head(path) = "?" THEN <<>>
    ELSE << Head(path) >> \o PathOnly(Tail(path))

\* mutant of RouterFind: the global middleware comes after the route's
RouterFindGlobalLast(r, method, path) ==
    LET match == JsFindRoute(r.tree, method, PathOnly(path))
    IN  IF match.status = "found"
        THEN [match EXCEPT !.middleware = match.middleware \o r.globalMiddleware]
        ELSE match

\* Router.find(method, path) on Router r; the parsed query is left out
RouterFind(r, method, path) ==
    LET match == JsFindRoute(r.tree, method, PathOnly(path))
    IN  IF match.status = "found"
        THEN [match EXCEPT !.middleware = r.globalMiddleware \o match.middleware]
        ELSE match

\* an entry of the trace of a request: a middleware of the chain was
\* entered ("enter"), called next() ("next"), returned ("return", with the
\* Response it returned or NoResponse), or the route handler was invoked
Event(ev, index, result) == [ev |-> ev, index |-> index, result |-> result]

Log(r, ev, index, result) == [r EXCEPT !.trace = Append(@, Event(ev, index, result))]

\* who awaits the promise of a next() call: handleRequest, a middleware of
\* the chain, or nobody
AwaiterH == [kind |-> "H", index |-> 0]
AwaiterMw(index) == [kind |-> "mw", index |-> index]
NoAwaiter == [kind |-> "none", index |-> 0]

\* a continuation in the microtask queue: of a next() call after "await
\* middleware(req, res, next)" (id: the call), of a middleware after "await
\* next()" (id: its index in the chain), of handleRequest after "await next()"
Job(kind, id) == [kind |-> kind, id |-> id]
Enqueue(r, job) == [r EXCEPT !.queue = Append(@, job)]

\* a middleware returns: its promise is settled with the result
Return(r, index, result) ==
    [Log(r, "return", index, result) EXCEPT !.mw[index].state = "returned",
                                            !.mw[index].result = result]

\* a middleware throws: its promise is rejected
Throw(r, index) ==
    [Log(r, "throw", index, NoResponse) EXCEPT !.mw[index].state = "thrown"]

\* the promise of middleware index is settled
Settled(r, index) == r.mw[index].state \in {"returned", "thrown"}

\* A call of next() by awaiter, run synchronously as far as it goes.  With a
\* middleware left, that middleware is invoked and runs up to its first
\* await or its return; the call then awaits the promise of the middleware,
\* and its continuation is queued at once if the middleware has returned.
\* Past the end of the chain the call resolves at once and the continuation
\* of an awaiting caller is queued.
RECURSIVE CallNext(_, _)
RECURSIVE Invoke(_, _, _)
CallNext(r, awaiter) ==
    LET call == Len(r.calls) + 1
    IN  IF r.middlewareIndex < Len(r.match.middleware)
        THEN LET index == r.middlewareIndex + 1
                 entered == [Log(r, "enter", index, NoResponse) EXCEPT
                                !.middlewareIndex = index,
                                !.mw[index].call = call,
                                !.calls = Append(@, [invokes |-> index, resolved |-> FALSE,
                                                     rejected |-> FALSE,
                                                     awaiter |-> awaiter])]
                 ran == Invoke(entered, index,
                               Behaviour(r.match.middleware[index], r.authorized))
             IN  IF Settled(ran, index)
                 THEN Enqueue(ran, Job("next", call)) ELSE ran
        ELSE LET done == [r EXCEPT !.calls = Append(@, [invokes |-> 0, resolved |-> TRUE,
                                                         rejected |-> FALSE,
                                                         awaiter |-> awaiter])]
             IN  IF awaiter.kind = "none" THEN done
                 ELSE Enqueue(done, Job(awaiter.kind, awaiter.index))

\* middleware index of the chain runs, from its start or from the end of
\* its asynchronous check, up to its next await or its return
Invoke(r, index, behaviour) ==
    CASE behaviour = "deny" ->
             Return(r, index, MiddlewareResponse(r.match.middleware[index], index))
      [] behaviour = "pass" ->
             [CallNext(Log(r, "next", index, NoResponse), AwaiterMw(index))
                 EXCEPT !.mw[index].state = "awaiting"]
      [] behaviour = "fire" ->
             Return(CallNext(Log(r, "next", index, NoResponse), NoAwaiter), index, NoResponse)
      [] behaviour = "throw" -> Throw(r, index)
      [] OTHER -> [r EXCEPT !.mw[index].state = "io"]

\* sendResponse(nativeRes, response): writeHead and end; handleRequest is over
SendResponse(r, response) == [r EXCEPT !.sent = Append(@, response), !.phase = "done"]

\* the catch block of handleRequest: an error handler is called and the
\* Response it returns is sent, or the JSON 500 Response if it returns
\* something else; without an error handler, and when the error handler
\* throws, the bare 500 is written
CatchBlock(r, errorHandler) ==
    SendResponse(r, CASE errorHandler = "response" -> ErrorHandlerResponse
                      [] errorHandler = "value" -> ErrorJsonResponse
                      [] OTHER -> ServerErrorResponse)

\* the error handler of the application that handles request r: only the
\* JavaScript applications of the model register one
ErrorHandlerOf(r) == IF r.framework = "js" THEN router.errorHandler ELSE "none"

\* the request record when handleRequest starts
NewRequest(framework, method, url, authorized, match) ==
    [NoRequest EXCEPT !.framework = framework, !.method = method, !.url = url, !.authorized = authorized,
                      !.match = match,
                      !.mw = [index \in 1..Len(match.middleware) |->
                                 [state |-> "idle", result |-> NoResponse, call |-> 0]]]

\* mutant of HandleRequest: without a match the chain of global middleware
\* is still started
HandleRequestChainOnMiss(method, url, authorized, returns) ==
    LET found == RouterFind(router, method, url)
        match == IF found.status = "null"
                 THEN [found EXCEPT !.middleware = router.globalMiddleware] ELSE found
        fresh == [NewRequest("js", method, url, authorized, match) EXCEPT !.returns = returns]
    IN  /\ Quiet /\ ~TsInUse
        /\ router' = [router EXCEPT !.compiled = TRUE]
        /\ req' = IF match.status = "throw"
                  THEN CatchBlock(fresh, router.errorHandler)
                  ELSE CallNext([fresh EXCEPT !.phase = "chain"], AwaiterH)
        /\ UNCHANGED <<treeVars, tsApp, declared>>

\* handleRequest up to its first await: the route is looked up (Router.find
\* forges first); without a match the 404 response is sent; an exception of
\* the lookup goes to the catch block; with a match next() is called and
\* awaited.  returns is what the route handler will do for this request.
HandleRequest(method, url, authorized, returns) ==
    LET match == RouterFind(router, method, url)
        fresh == [NewRequest("js", method, url, authorized, match) EXCEPT !.returns = returns]
    IN  /\ Quiet /\ ~TsInUse
        /\ router' = [router EXCEPT !.compiled = TRUE]
        /\ req' = CASE match.status = "throw" -> CatchBlock(fresh, router.errorHandler)
                    [] match.status = "null" -> SendResponse(fresh, NotFoundResponse)
                    [] OTHER -> CallNext([fresh EXCEPT !.phase = "chain"], AwaiterH)
        /\ UNCHANGED <<treeVars, tsApp, declared>>

\* the queue without its first continuation
Dequeued == [req EXCEPT !.queue = Tail(@)]

\* the closure next after "await middleware(req, res, next)": the
\* JavaScript framework keeps a Response as middlewareResponse, the
\* TypeScript framework drops what the middleware returned; the call
\* resolves, or is rejected if the middleware threw, and the continuation
\* of its awaiter is queued (a rejection nobody awaits is lost)
NextResumes ==
    /\ req.queue # <<>> /\ Head(req.queue).kind = "next"
    /\ LET call == Head(req.queue).id
           invoked == req.mw[req.calls[call].invokes]
           result == invoked.result
           awaiter == req.calls[call].awaiter
           kept == [Dequeued EXCEPT !.middlewareResponse =
                                        IF req.framework = "js" /\ result # NoResponse
                                        THEN result ELSE @,
                                    !.calls[call].resolved = TRUE,
                                    !.calls[call].rejected = (invoked.state = "thrown")]
       IN  req' = IF awaiter.kind = "none" THEN kept
                  ELSE Enqueue(kept, Job(awaiter.kind, awaiter.index))
    /\ UNCHANGED <<treeVars, router, tsApp, declared>>

\* a middleware after "await next()": it returns nothing, or the await
\* throws because the call was rejected; the continuation of the next()
\* call that invoked the middleware is queued
MiddlewareResumes ==
    /\ req.queue # <<>> /\ Head(req.queue).kind = "mw"
    /\ LET index == Head(req.queue).id
           awaited == CHOOSE call \in 1..Len(req.calls) :
                          req.calls[call].awaiter = AwaiterMw(index)
       IN  req' = Enqueue(IF req.calls[awaited].rejected
                          THEN Throw(Dequeued, index)
                          ELSE Return(Dequeued, index, NoResponse),
                          Job("next", req.mw[index].call))
    /\ UNCHANGED <<treeVars, router, tsApp, declared>>

\* the asynchronous check a middleware awaits completes (a task of the event
\* loop: the microtask queue is empty): the middleware returns a Response
\* or goes on to await next()
IoCompletes(index) ==
    /\ req.queue = <<>>
    /\ index \in DOMAIN req.mw /\ req.mw[index].state = "io"
    /\ LET ran == Invoke(req, index, AfterIo(req.authorized))
       IN  req' = IF Settled(ran, index)
                  THEN Enqueue(ran, Job("next", req.mw[index].call)) ELSE ran
    /\ UNCHANGED <<treeVars, router, tsApp, declared>>

\* the route handler is invoked and handleRequest deals with what it does:
\* a Response is sent; another value is sent through res.send; for
\* undefined the JavaScript framework sends nothing and the TypeScript one
\* sends res.send(undefined); an exception goes to the catch block
RunHandler(r) ==
    LET invoked == Log(r, "handler", 0, NoResponse)
    IN  CASE r.returns = "response" -> SendResponse(invoked, HandlerResponse)
          [] r.returns = "value" -> SendResponse(invoked, SendResultResponse)
          [] r.returns = "undefined" ->
                 IF r.framework = "js" THEN [invoked EXCEPT !.phase = "done"]
                 ELSE SendResponse(invoked, SendResultResponse)
          [] OTHER -> CatchBlock(invoked, ErrorHandlerOf(r))

\* handleRequest after "await next()": a rejected chain goes to the catch
\* block; a Response kept from the chain is sent (JavaScript framework
\* only: the TypeScript one keeps none); otherwise the route handler runs
AfterChain ==
    /\ req.queue # <<>> /\ Head(req.queue).kind = "H"
    /\ req' = IF req.calls[1].rejected
              THEN CatchBlock(Dequeued, ErrorHandlerOf(req))
              ELSE IF req.middlewareResponse # NoResponse
              THEN SendResponse(Dequeued, req.middlewareResponse)
              ELSE RunHandler(Dequeued)
    /\ UNCHANGED <<treeVars, router, tsApp, declared>>

\* EmberAPI.catch(handler) of the JavaScript framework
Catch(errorHandler) ==
    /\ Quiet /\ ~TsInUse
    /\ router' = [router EXCEPT !.errorHandler = errorHandler]
    /\ UNCHANGED <<treeVars, tsApp, declared, req>>

(* ------------------- EmberAPI (TypeScript framework) -------------------- *)

\* EmberAPI.plug(middleware)
TsPlug(mw) ==
    /\ Quiet /\ ~JsInUse
    /\ Len(tsApp.globalMiddleware) < MaxPlugs
    /\ tsApp' = [tsApp EXCEPT !.globalMiddleware = Append(@, mw)]
    /\ UNCHANGED <<treeVars, router, declared, req>>

\* Router.addRoute(method, pattern, handler, middleware) on the Router of
\* the application
TsRouterAddRoute(app, method, pattern, handler, middleware) ==
    [app EXCEPT !.pendingRoutes = Append(@, [method |-> method, pattern |-> pattern,
                                             handler |-> handler,
                                             middleware |-> middleware]),
                !.compiled = FALSE]

\* EmberAPI.get / EmberAPI.post: the global middleware of this moment is
\* registered with the route, in front of the route's own
TsGet(method, pattern, middleware) ==
    LET handler == Len(tsApp.pendingRoutes) + 1
    IN  /\ Quiet /\ ~JsInUse
        /\ Len(tsApp.pendingRoutes) < AppMaxRoutes
        /\ tsApp' = TsRouterAddRoute(tsApp, method, pattern, handler,
                                     tsApp.globalMiddleware \o middleware)
        /\ declared' = Append(declared, [grouped |-> FALSE, group |-> <<>>, own |-> middleware])
        /\ UNCHANGED <<treeVars, router, req>>

\* EmberAPI.ember(prefix, callback, ...groupMiddleware) with a callback that
\* registers one route on the group application, whose global middleware
\* is that of the application followed by the group's; the route is copied
\* to the Router of the application under prefix + pattern
TsEmber(prefix, groupMiddleware, method, pattern, middleware) ==
    LET handler == Len(tsApp.pendingRoutes) + 1
        groupGlobal == tsApp.globalMiddleware \o groupMiddleware
        fullPattern == prefix \o pattern
    IN  /\ Quiet /\ ~JsInUse
        /\ Len(tsApp.pendingRoutes) < AppMaxRoutes
        /\ tsApp' = TsRouterAddRoute(tsApp, method, fullPattern, handler,
                                     groupGlobal \o middleware)
        /\ declared' = Append(declared, [grouped |-> TRUE, group |-> groupMiddleware,
                                         own |-> middleware])
        /\ UNCHANGED <<treeVars, router, req>>

\* handleRequest of the TypeScript framework up to its first await:
\* Router.match (which forges first) on the pathname of the URL; without a
\* match the 404 Response is returned; an exception of the lookup goes to
\* the catch block, which without an error handler returns 500; with a
\* match next() is called and awaited
TsHandleRequest(method, url, authorized) ==
    LET root == IF tsApp.compiled THEN tsApp.root
                ELSE InsertAll(EmptyTsTree, tsApp.pendingRoutes, 1)
        match == findRoute(root, method, PathOnly(url))
        fresh == NewRequest("ts", method, url, authorized, match)
    IN  /\ Quiet /\ ~JsInUse
        /\ tsApp' = [tsApp EXCEPT !.root = root, !.compiled = TRUE]
        /\ req' = CASE match.status = "throw" -> SendResponse(fresh, ServerErrorResponse)
                    [] match.status = "null" -> SendResponse(fresh, NotFoundResponse)
                    [] OTHER -> CallNext([fresh EXCEPT !.phase = "chain"], AwaiterH)
        /\ UNCHANGED <<treeVars, router, declared>>

\* the length of the longest list of a set of lists
Longest(lists) == CHOOSE n \in {Len(l) : l \in lists} : \A l \in lists : Len(l) <= n

\* the longest chain Router.find can return: global, group and own middleware
MaxChain == MaxPlugs + Longest(GroupMiddleware) + Longest(RouteMiddleware)

AppNext ==
    \/ \E mw \in PlugMiddleware : Plug(mw)
    \/ \E path \in AppPatterns, middleware \in RouteMiddleware : RouterGet("GET", path, middleware)
    \/ \E prefix \in Prefixes, groupMiddleware \in GroupMiddleware,
          path \in AppPatterns, middleware \in RouteMiddleware :
              Ember(prefix, groupMiddleware, "GET", path, middleware)
    \/ \E method \in Methods, url \in Urls, authorized \in BOOLEAN,
          returns \in RespondingHandlers :
              HandleRequest(method, url, authorized, returns)
    \/ \E mw \in PlugMiddleware : TsPlug(mw)
    \/ \E pattern \in AppPatterns, middleware \in RouteMiddleware :
          TsGet("GET", pattern, middleware)
    \/ \E prefix \in Prefixes, groupMiddleware \in GroupMiddleware,
          pattern \in AppPatterns, middleware \in RouteMiddleware :
              TsEmber(prefix, groupMiddleware, "GET", pattern, middleware)
    \/ \E method \in Methods, url \in Urls, authorized \in BOOLEAN :
          TsHandleRequest(method, url, authorized)
    \/ NextResumes
    \/ MiddlewareResumes
    \/ \E index \in 1..MaxChain : IoCompletes(index)
    \/ AfterChain

AppSpec == Init /\ [][AppNext]_vars

(* ---- applications whose handlers and middleware fail (JavaScript) ---- *)

ErrPlugMiddleware == {"log", "fire", "boom"}

ErrNext ==
    \/ \E mw \in ErrPlugMiddleware : Plug(mw)
    \/ \E errorHandler \in ErrorHandlers : Catch(errorHandler)
    \/ \E path \in AppPatterns : RouterGet("GET", path, <<>>)
    \/ \E method \in Methods, url \in Urls, returns \in HandlerReturns :
          HandleRequest(method, url, TRUE, returns)
    \/ NextResumes
    \/ MiddlewareResumes
    \/ AfterChain

ErrSpec == Init /\ [][ErrNext]_vars

(* ============================ properties ================================ *)

\* (method, pattern) has been registered
Registered(method, pattern) ==
    \E i \in 1..Len(jsRoutes) : jsRoutes[i].method = method /\ jsRoutes[i].path = pattern

\* the handler most recently registered for (method, pattern)
LastHandler(method, pattern) ==
    CHOOSE i \in 1..Len(jsRoutes) :
        /\ jsRoutes[i].method = method /\ jsRoutes[i].path = pattern
        /\ \A j \in (i + 1)..Len(jsRoutes) :
              ~(jsRoutes[j].method = method /\ jsRoutes[j].path = pattern)

\* the match that returns the route registered for (method, pattern)
RouteOf(method, pattern, params) ==
    Match(LastHandler(method, pattern), << LastHandler(method, pattern) >>, params)

\* the last operation was a lookup of path for method
LookedUp(method, path) ==
    last.op = "lookup" /\ last.method = method /\ last.path = path

UsersActivePosts == <<"/", "users", "/", "active", "/", "posts">>
Users42 == <<"/", "users", "/", "42">>
FilesAB == <<"/", "files", "/", "a", "/", "b">>

\* the segments and the method of the last lookup, as _search receives them
LastSegments == JsSegments(last.path)

\* a node that _search reaches along static children only
OnStaticPrefix(pos) ==
    /\ Len(pos) <= Len(LastSegments)
    /\ \A i \in 1..Len(pos) : pos[i] = StaticEdge(LastSegments[i])

(* ---- C1 ---- *)
\* C1: static beats parameter.  When /users/active and /users/:id are both
\* registered for a method, a lookup of /users/active for that method returns
\* the static route with empty params, in radix-tree.js and in radix-tree.ts.
C1_StaticBeatsParameter ==
    \A m \in Methods :
        (LookedUp(m, UsersActive) /\ Registered(m, UsersActive) /\ Registered(m, UsersId))
        => /\ last.js = RouteOf(m, UsersActive, EmptyParams)
           /\ last.ts = RouteOf(m, UsersActive, EmptyParams)

C1_Witness ==
    \E m \in Methods :
        /\ LookedUp(m, UsersActive) /\ Registered(m, UsersActive) /\ Registered(m, UsersId)
        /\ LastHandler(m, UsersActive) < LastHandler(m, UsersId)
        /\ last.js.status = "found" /\ last.ts.status = "found"

(* ---- C2 ---- *)
\* C2: parameter beats wildcard.  When /users/:id and /users/* are both
\* registered for a method, a lookup of /users/42 for that method returns the
\* parameter route with params exactly {id: "42"}, in both implementations.
C2_ParameterBeatsWildcard ==
    \A m \in Methods :
        (LookedUp(m, Users42) /\ Registered(m, UsersId) /\ Registered(m, UsersStar))
        => /\ last.js = RouteOf(m, UsersId, SetParam(EmptyParams, <<"id">>, <<"42">>))
           /\ last.ts = RouteOf(m, UsersId, SetParam(EmptyParams, <<"id">>, <<"42">>))

C2_Witness ==
    \E m \in Methods :
        /\ LookedUp(m, Users42) /\ Registered(m, UsersId) /\ Registered(m, UsersStar)
        /\ LastHandler(m, UsersId) < LastHandler(m, UsersStar)
        /\ last.js.status = "found" /\ last.ts.status = "found"
        /\ DOMAIN last.js.params = { <<"id">> }

(* ---- C3 ---- *)
\* C3: in the TypeScript router a static dead end does not prevent trying the
\* parameter branch of the same node: with /users/active/settings and
\* /users/:id/posts registered for a method, /users/active/posts returns the
\* second route with id = "active".
C3_TsStaticDeadEndTriesParameter ==
    \A m \in Methods :
        (LookedUp(m, UsersActivePosts) /\ Registered(m, UsersActiveSettings)
            /\ Registered(m, UsersIdPosts))
        => last.ts = RouteOf(m, UsersIdPosts, SetParam(EmptyParams, <<"id">>, <<"active">>))

(* ---- C4 ---- *)
\* C4: in the TypeScript router a parameter dead end does not prevent trying
\* the wildcard branch of the same node: with /files/:name and /files/*
\* registered for a method, /files/a/b returns the wildcard route with the
\* wildcard bound to "a/b" and no binding for name.
C4_TsParameterDeadEndTriesWildcard ==
    \A m \in Methods :
        (LookedUp(m, FilesAB) /\ Registered(m, FilesName) /\ Registered(m, FilesStar))
        => last.ts = RouteOf(m, FilesStar, SetParam(EmptyParams, <<"*">>, <<"a", "/", "b">>))

(* ---- C5 ---- *)
\* the nodes of the JavaScript tree at which the last lookup still has a
\* segment to match
InnerNodes == {pos \in DOMAIN jsTree : Len(pos) < Len(LastSegments)}

\* _search from node pos for the segment that follows its depth
SearchAt(pos) == JsSearch(jsTree, pos, LastSegments, Len(pos) + 1, EmptyParams, last.method)

\* the static child of pos for the current segment exists and its subtree
\* yields no route for the rest of the path
StaticDeadEnd(pos) ==
    LET spos == Append(pos, StaticEdge(LastSegments[Len(pos) + 1]))
    IN  /\ spos \in DOMAIN jsTree
        /\ JsSearch(jsTree, spos, LastSegments, Len(pos) + 2, EmptyParams, last.method).status
              = "null"

\* _search in the parameter child of pos with the current segment bound
ViaParam(pos) ==
    LET ppos == Append(pos, ParamEdge)
    IN  JsSearch(jsTree, ppos, LastSegments, Len(pos) + 2,
                 SetParam(EmptyParams, jsTree[ppos].paramName,
                          DecodeURIComponent(LastSegments[Len(pos) + 1])),
                 last.method)

\* the static child dead-ends and the parameter child's subtree matches
StaticDeadEndParamMatches(pos) ==
    /\ StaticDeadEnd(pos)
    /\ Append(pos, ParamEdge) \in DOMAIN jsTree
    /\ ~DecodeThrows(LastSegments[Len(pos) + 1])
    /\ ViaParam(pos).status = "found"

\* C5: in radix-tree.js a static dead end does not prevent trying the
\* parameter child of the same node: the search from that node returns what
\* the parameter child's subtree returns, with the current segment bound to
\* the parameter's name; when the node is reached along static children this
\* is the result of findRoute.
C5_JsStaticDeadEndTriesParameter ==
    last.op = "lookup" =>
    \A pos \in InnerNodes :
        StaticDeadEndParamMatches(pos) =>
        LET name == jsTree[Append(pos, ParamEdge)].paramName
            value == DecodeURIComponent(LastSegments[Len(pos) + 1])
        IN  /\ SearchAt(pos).status = "found"
            /\ SearchAt(pos).entry = ViaParam(pos).entry
            /\ name \in DOMAIN SearchAt(pos).params
            /\ SearchAt(pos).params[name] = value
            /\ OnStaticPrefix(pos) =>
                  /\ last.js.status = "found"
                  /\ last.js.handler = ViaParam(pos).entry.handler
                  /\ name \in DOMAIN last.js.params
                  /\ last.js.params[name] = value

C5_Witness ==
    /\ LookedUp("GET", UsersActivePosts)
    /\ \E pos \in InnerNodes : OnStaticPrefix(pos) /\ StaticDeadEndParamMatches(pos)
    /\ last.js = RouteOf("GET", UsersIdPosts, SetParam(EmptyParams, <<"id">>, <<"active">>))

(* ---- C6 ---- *)
\* the parameter child of pos dead-ends (after a static miss or dead end) and
\* the wildcard child of pos has a route for the method
ParamDeadEndWildcardMatches(pos) ==
    LET spos == Append(pos, StaticEdge(LastSegments[Len(pos) + 1]))
        ppos == Append(pos, ParamEdge)
        wpos == Append(pos, WildcardEdge)
    IN  /\ spos \in DOMAIN jsTree => StaticDeadEnd(pos)
        /\ ppos \in DOMAIN jsTree
        /\ ~RestThrows(LastSegments, Len(pos) + 1)
        /\ ViaParam(pos).status = "null"
        /\ wpos \in DOMAIN jsTree
        /\ last.method \in DOMAIN jsTree[wpos].handler

\* C6: in radix-tree.js a parameter dead end is unbound and the wildcard
\* child of the same node is tried: the params returned hold the wildcard
\* binding (the decoded segments from the current index on, joined with "/")
\* and not the abandoned parameter binding.
C6_JsParameterDeadEndTriesWildcard ==
    last.op = "lookup" =>
    \A pos \in InnerNodes :
        ParamDeadEndWildcardMatches(pos) =>
        LET pname == jsTree[Append(pos, ParamEdge)].paramName
            wnode == jsTree[Append(pos, WildcardEdge)]
            rest == DecodedRest(LastSegments, Len(pos) + 1)
        IN  /\ SearchAt(pos).status = "found"
            /\ SearchAt(pos).entry = wnode.handler[last.method]
            /\ wnode.paramName \in DOMAIN SearchAt(pos).params
            /\ SearchAt(pos).params[wnode.paramName] = rest
            /\ pname # wnode.paramName => pname \notin DOMAIN SearchAt(pos).params
            /\ OnStaticPrefix(pos) =>
                  /\ last.js.status = "found"
                  /\ last.js.handler = wnode.handler[last.method].handler
                  /\ wnode.paramName \in DOMAIN last.js.params
                  /\ last.js.params[wnode.paramName] = rest
                  /\ pname # wnode.paramName => pname \notin DOMAIN last.js.params

C6_Witness ==
    /\ LookedUp("GET", FilesAB)
    /\ \E pos \in InnerNodes : OnStaticPrefix(pos) /\ ParamDeadEndWildcardMatches(pos)
    /\ last.js = RouteOf("GET", FilesStar,
                         SetParam(EmptyParams, <<"wildcard">>, <<"a", "/", "b">>))

(* ---- C7 ---- *)
\* C7: trailing slash equivalence in the TypeScript router: for a path with
\* at least one segment, match gives the same result with and without one
\* trailing slash.
C7_TsTrailingSlashEquivalence ==
    (last.op = "lookup" /\ Len(SplitFilter(last.path)) >= 1) =>
        /\ last.ts = findRoute(tsRoot, last.method, StripTrailingSlash(last.path))
        /\ last.ts = findRoute(tsRoot, last.method,
                               Append(StripTrailingSlash(last.path), "/"))

(* ---- C8 ---- *)
\* C8: in radix-tree.js the empty path and the root path are both the
\* zero-segment case: findRoute gives the same result for "" and "/", and a
\* route registered with pattern "/" is returned for both.
C8_JsRootPathEquivalence ==
    (last.op = "lookup" /\ last.path \in {<<>>, <<"/">>}) =>
        /\ last.js = JsFindRoute(jsTree, last.method, <<>>)
        /\ last.js = JsFindRoute(jsTree, last.method, <<"/">>)
        /\ Registered(last.method, RootPattern)
              => last.js = RouteOf(last.method, RootPattern, EmptyParams)

(* ---- C9 ---- *)
\* the segments of a pattern: its non-empty pieces between slashes
PatternSegments(pattern) == SplitFilter(pattern)

\* the pattern ends in a wildcard segment
EndsInWildcard(pattern) ==
    /\ Len(PatternSegments(pattern)) > 0
    /\ StartsWith(PatternSegments(pattern)[Len(PatternSegments(pattern))], "*")

\* the key a pattern's wildcard declares: "wildcard" for a bare "*", else
\* the text after the "*"
WildcardKey(pattern) ==
    LET w == PatternSegments(pattern)[Len(PatternSegments(pattern))]
    IN  IF w = <<"*">> THEN <<"wildcard">> ELSE Slice1(w)

\* C9: wildcard capture in radix-tree.js: when findRoute returns a route
\* whose pattern is X/* or X/*name for a path made of X's segments and at
\* least one more, the params bind the route's wildcard key ("wildcard", or
\* name) to the segments that follow X, joined with "/".
C9_JsWildcardCapture ==
    (last.op = "lookup" /\ last.js.status = "found"
        /\ EndsInWildcard(jsRoutes[last.js.handler].path)
        /\ Len(SplitFilter(last.path)) >= Len(PatternSegments(jsRoutes[last.js.handler].path))) =>
    LET pattern == jsRoutes[last.js.handler].path
    IN  /\ WildcardKey(pattern) \in DOMAIN last.js.params
        /\ last.js.params[WildcardKey(pattern)]
              = DecodedRest(SplitFilter(last.path), Len(PatternSegments(pattern)))

(* ---- C10 ---- *)
\* C10: in radix-tree.js a wildcard consumes at least one path segment: a
\* route whose pattern ends in a wildcard is never returned for a path that
\* has no segment left for the wildcard (so /* is not returned for "/").
C10_JsWildcardNeedsSegment ==
    (last.op = "lookup" /\ last.js.status = "found"
        /\ EndsInWildcard(jsRoutes[last.js.handler].path)) =>
    Len(SplitFilter(last.path)) >= Len(PatternSegments(jsRoutes[last.js.handler].path))

(* ---- C11 ---- *)
\* a pattern without parameter or wildcard segments
IsStaticPattern(pattern) ==
    \A i \in 1..Len(SplitFilter(pattern)) :
        ~StartsWith(SplitFilter(pattern)[i], ":") /\ ~StartsWith(SplitFilter(pattern)[i], "*")

\* C11: fully static routes resolve to themselves in radix-tree.js: for a
\* registered (method, pattern) without parameter or wildcard segments,
\* findRoute(method, pattern) returns the handler most recently registered
\* for it, with empty params.
C11_JsStaticResolvesToItself ==
    (last.op = "lookup" /\ IsStaticPattern(last.path) /\ Registered(last.method, last.path))
    => last.js = RouteOf(last.method, last.path, EmptyParams)

C11_Witness ==
    /\ LookedUp("GET", UsersActive)
    /\ Len(jsRoutes) = 2 /\ jsRoutes[1].path = UsersActive /\ jsRoutes[2].path = UsersActive
    /\ jsRoutes[1].method = "GET" /\ jsRoutes[2].method = "GET"
    /\ last.js = Match(2, <<2>>, EmptyParams)

(* ---- C12 ---- *)
\* C12: a lookup never returns a route registered under another method, in
\* radix-tree.js and in radix-tree.ts; when no route at all is registered for
\* the method of the lookup, nothing is found.
C12_MethodIsolation ==
    last.op = "lookup" =>
        /\ last.js.status = "found" => jsRoutes[last.js.handler].method = last.method
        /\ last.ts.status = "found" =>
              ToUpperCase(tsPending[last.ts.handler].method) = ToUpperCase(last.method)
        /\ (\A i \in 1..Len(jsRoutes) : jsRoutes[i].method # last.method)
              => last.js.status # "found" /\ last.ts.status # "found"

C12_Witness ==
    /\ LookedUp("POST", UsersActive)
    /\ Registered("GET", UsersActive) /\ ~Registered("POST", UsersActive)
    /\ Registered("POST", UsersId)
    /\ last.js = RouteOf("POST", UsersId, SetParam(EmptyParams, <<"id">>, <<"active">>))
    /\ last.ts.status = "found" => last.ts.handler = last.js.handler

(* ---- C13 ---- *)
\* a later registration has the method and the pattern of registration i
Superseded(i) ==
    \E j \in (i + 1)..Len(jsRoutes) :
        jsRoutes[j].method = jsRoutes[i].method /\ jsRoutes[j].path = jsRoutes[i].path

C16_LookupNeverRaises ==
    last.op = "lookup" => last.js.status # "throw" /\ last.ts.status # "throw"

(* ---- C18 ---- *)
\* the tree built from scratch from every route registered so far
FreshTree == InsertAll(EmptyTsTree, tsPending, 1)

\* C18: lazy compilation is transparent in the TypeScript Router: the tree
\* the next match() searches is the tree built from scratch from all routes
\* registered so far, and a match() returns what a lookup in that tree
\* returns.
C18_TsLazyCompilationTransparent ==
    /\ Forged = FreshTree
    /\ last.op = "lookup" =>
          /\ tsCompiled /\ tsRoot = FreshTree
          /\ last.ts = findRoute(FreshTree, last.method, last.path)

\* a route was registered after forge() or match() had compiled an earlier
\* set of routes
C18_Witness ==
    /\ ~tsCompiled /\ Len(tsPending) = 2
    /\ tsRoot = InsertAll(EmptyTsTree, SubSeq(tsPending, 1, 1), 1)
    /\ tsRoot # FreshTree
    /\ Forged = FreshTree

(* ---- C14 ---- *)
\* the edges of the first k segments of a pattern in the JavaScript tree
RECURSIVE JsEdges(_, _)
JsEdges(segments, k) ==
    IF k = 0 THEN <<>> ELSE Append(JsEdges(segments, k - 1), JsEdge(segments[k]))

\* the registration that created the node segment k of registration h leads to
JsCreatorOf(h, k) ==
    CHOOSE i \in 1..h :
        /\ Len(JsSegments(jsRoutes[i].path)) >= k
        /\ JsEdges(JsSegments(jsRoutes[i].path), k) = JsEdges(JsSegments(jsRoutes[h].path), k)
        /\ \A j \in 1..(i - 1) :
              ~(/\ Len(JsSegments(jsRoutes[j].path)) >= k
                /\ JsEdges(JsSegments(jsRoutes[j].path), k)
                      = JsEdges(JsSegments(jsRoutes[h].path), k))

\* the positions of the parameter segments of registration h
ParamPositions(h) ==
    { k \in 1..Len(JsSegments(jsRoutes[h].path)) :
          StartsWith(JsSegments(jsRoutes[h].path)[k], ":") }

\* the name the pattern of registration h gives its segment k
OwnName(h, k) == Slice1(JsSegments(jsRoutes[h].path)[k])

\* the name the first registration through the same node gave it
FirstName(h, k) == Slice1(JsSegments(jsRoutes[JsCreatorOf(h, k)].path)[k])

\* a match of radix-tree.js or radix-tree.ts binds every parameter segment of
\* its route under the first name given at its position (first = TRUE) or
\* under the route's own name (first = FALSE), and binds nothing else
BindsUnder(result, first) ==
    LET h == result.handler
        names == [k \in ParamPositions(h) |-> IF first THEN FirstName(h, k) ELSE OwnName(h, k)]
    IN  result.status = "found" =>
            /\ DOMAIN result.params = { names[k] : k \in ParamPositions(h) }
            /\ \A k \in ParamPositions(h) :
                  result.params[names[k]] = DecodeURIComponent(LastSegments[k])

\* a pattern with a ':' that has no name, or with a wildcard segment that is
\* not the last one
Malformed(pattern) ==
    \E k \in 1..Len(SplitFilter(pattern)) :
        \/ SplitFilter(pattern)[k] = <<":">>
        \/ StartsWith(SplitFilter(pattern)[k], "*") /\ k < Len(SplitFilter(pattern))

C15_MalformedPatternRejected ==
    [][ \A method \in Methods, pattern \in NamePatterns :
            (Malformed(pattern) /\ AddRoute(method, pattern))
            => (jsTree' = jsTree /\ FreshTree' = FreshTree) ]_vars

(* ---- C17 ---- *)
\* C17: the middleware list Router.find returns for a route is the global
\* middleware in plug order, then the middleware of the route's group in the
\* order given to ember, then the route's own middleware in the order given
\* at registration; outside a group it is global, then the route's own.
C17_FindMiddlewareOrder ==
    (~Quiet /\ req.framework = "js" /\ req.match.status = "found") =>
        LET route == declared[req.match.handler]
        IN  /\ req.match.middleware = router.globalMiddleware \o route.group \o route.own
            /\ ~route.grouped => route.group = <<>>

C17_Witness ==
    /\ ~Quiet /\ req.framework = "js" /\ req.match.status = "found"
    /\ router.globalMiddleware = <<"fire", "log">>
    /\ declared[req.match.handler] = [grouped |-> TRUE, group |-> <<"auth", "log">>,
                                      own |-> <<"fire", "verify">>]
    /\ req.match.middleware = <<"fire", "log", "auth", "log", "fire", "verify">>

(* ---- C19 ---- *)
\* middleware index of the chain returned a Response without calling next()
ShortCircuitedAt(index) ==
    /\ \E n \in 1..Len(req.trace) :
          /\ req.trace[n].ev = "return" /\ req.trace[n].index = index
          /\ req.trace[n].result # NoResponse
    /\ \A n \in 1..Len(req.trace) :
          ~(req.trace[n].ev = "next" /\ req.trace[n].index = index)

\* C19: when a middleware of the matched chain returns a Response without
\* calling next(), that Response is the one sent, and no later middleware of
\* the chain and no route handler is invoked.
C19_ShortCircuit ==
    (req.phase = "done" /\ req.framework = "js") =>
        \A index \in 1..Len(req.match.middleware) :
            ShortCircuitedAt(index) =>
                /\ req.sent = << MiddlewareResponse(req.match.middleware[index], index) >>
                /\ \A n \in 1..Len(req.trace) :
                      /\ req.trace[n].ev # "handler"
                      /\ req.trace[n].ev = "enter" => req.trace[n].index <= index

(* ---- C20 ---- *)
\* C20: when the router returns no match for the method and path of the
\* request, the response has status 404 and no middleware and no route
\* handler is invoked for the request.
C20_NotFound ==
    (req.phase # "idle" /\ req.match.status = "null") =>
        /\ req.phase = "done"
        /\ req.trace = <<>>
        /\ Len(req.sent) = 1 /\ req.sent[1].status = 404

C20_Witness ==
    /\ req.phase = "done" /\ req.framework = "js" /\ req.match.status = "null"
    /\ req.url = <<"/", "protected", "?", "q">> /\ req.method = "POST"
    /\ Len(router.routes) = 1 /\ router.routes[1].path = Protected
    /\ Len(router.globalMiddleware) = 2
    /\ req.sent = << NotFoundResponse >>


(* ---- C21 ---- *)
\* the calls of _search made by the last lookup
LastVisits == JsVisits(jsTree, RootPos, LastSegments, 1, last.method)

C22_RoutesComplete ==
    last.op = "routes" =>
        /\ \A i \in 1..Len(tsPending) :
              [method |-> tsPending[i].method, pattern |-> tsPending[i].pattern]
                  \in getAllRoutes(tsRoot)
        /\ \A method \in Methods, path \in NamePaths :
              findRoute(tsRoot, method, path) = findRoute(FreshTree, method, path)


(* ---- C23 ---- *)
\* C23: the params of a successful findRoute of radix-tree.js are exactly the
\* bindings of the matched route's own pattern: what extractParams computes
\* for the compiled pattern of that route and the segments of the path, with
\* no binding left from a branch the search abandoned.
C23_ParamsAreOwnBindings ==
    (last.op = "lookup" /\ last.js.status = "found") =>
        LET own == extractParams(compile(jsRoutes[last.js.handler].path),
                                 SplitFilter(last.path))
        IN  own.status = "ok" /\ last.js.params = own.params


(* ---- C24 ---- *)
\* C24: the iterative findRoute of radix-tree.ts gives the same outcome as
\* the recursive findRoute of part_005 on every tree, method and path: both
\* find nothing, or both return the same handler, the same middleware and
\* equal params.
C24_IterativeEqualsRecursive ==
    last.op = "lookup" => last.ts = findRouteRecursive(tsRoot, last.method, last.path)


(* ---- C25 ---- *)
\* the iterations the while (true) loop made in the last lookup
LastIterations == LoopIterations(tsRoot, last.method, last.path)

\* C25: the iterative lookup of radix-tree.ts terminates: the loop is left
\* (by a return of a match or of null, or by the exception of C16) after
\* finitely many iterations, at most (n + 1) * 2^n for a path of n segments:
\* at most n + 1 iterations between two pops of a backtrack state, and the
\* stack of states, which holds increasing indices, can be popped fewer than
\* 2^n times; the count stays below the number up to which it is kept.
C25_LoopTerminates ==
    last.op = "lookup" =>
        /\ last.ts.status \in {"found", "null", "throw"}
        /\ LastIterations <= (SegmentCount(last.path) + 1) * 2 ^ SegmentCount(last.path)
        /\ LastIterations <= MaxIterations

C25_Witness ==
    /\ LookedUp("POST", UsersActive)
    /\ Len(tsPending) = 1 /\ tsPending[1].method = "GET" /\ tsPending[1].pattern = UsersId
    /\ last.ts.status = "null"
    /\ LastIterations = 4


(* ---- C26 ---- *)
\* C26: registration is monotone for lookups in radix-tree.js: when
\* findRoute(method, path) returns a route in the tree, it still returns a
\* route (the same or another one) after any further addRoute.
C26_RegistrationMonotone ==
    [][\A m \in Methods, pattern \in NamePatterns :
          AddRoute(m, pattern) =>
              \A method \in Methods, path \in NamePaths :
                  JsFindRoute(jsTree, method, path).status = "found"
                      => JsFindRoute(jsTree', method, path).status = "found"]_vars


(* ---- C27 ---- *)
\* middleware index of the chain was invoked and called next() before entry
\* n of the trace
ContinuedBefore(index, n) ==
    \E a, b \in 1..(n - 1) :
        /\ a < b
        /\ req.trace[a].ev = "enter" /\ req.trace[a].index = index
        /\ req.trace[b].ev = "next" /\ req.trace[b].index = index

\* C27: in handleRequest of both frameworks the handler of the matched route
\* is invoked only if every middleware of the matched chain was invoked and
\* called next().
C27_HandlerOnlyAfterWholeChain ==
    \A n \in 1..Len(req.trace) :
        req.trace[n].ev = "handler" =>
            \A index \in 1..Len(req.match.middleware) : ContinuedBefore(index, n)


(* ---- C28 ---- *)
\* C28: within a request the middleware are invoked in the order of the
\* chain, each at most once, and the route handler starts only after every
\* middleware invocation that was started has completed (returned), also when
\* a middleware calls next() without awaiting it.
C28_StrictOrder ==
    /\ \A a, b \in 1..Len(req.trace) :
          (a < b /\ req.trace[a].ev = "enter" /\ req.trace[b].ev = "enter")
              => req.trace[a].index < req.trace[b].index
    /\ \A n \in 1..Len(req.trace) :
          req.trace[n].ev = "handler" =>
              \A a \in 1..Len(req.trace) :
                  req.trace[a].ev = "enter" =>
                      /\ a < n
                      /\ \E b \in (a + 1)..(n - 1) :
                            /\ req.trace[b].ev = "return"
                            /\ req.trace[b].index = req.trace[a].index


(* ---- C30 ---- *)
\* C30: in the TypeScript EmberAPI every middleware added with plug() is
\* part of the chain run for a matched route, whether the route was
\* registered before or after that plug().
C30_GlobalMiddlewareEveryRoute ==
    [][\A method \in Methods, url \in Urls, authorized \in BOOLEAN :
          (TsHandleRequest(method, url, authorized) /\ req'.match.status = "found") =>
              \A i \in 1..Len(tsApp.globalMiddleware) :
                  \E k \in 1..Len(req'.match.middleware) :
                      req'.match.middleware[k] = tsApp.globalMiddleware[i]]_vars


(* ---- C29 ---- *)
\* C29: every handleRequest of the JavaScript framework sends exactly one
\* response: never more than one, and one has been sent when handleRequest
\* is over and nothing of the request is left to run, whatever the handler
\* returns and whether or not a middleware, the handler or the error handler
\* throws.
C29_ExactlyOneResponse ==
    req.framework = "js" =>
        /\ Len(req.sent) <= 1
        /\ (Quiet /\ req.phase = "done") => Len(req.sent) = 1

====
